---- MODULE Spec2Model ----
(***************************************************************************)
(* A model of app.py, the Flask attendance-registration backend.           *)
(*                                                                         *)
(* State: the three environment settings read at import time, the          *)
(* process-wide supabase client handle, the two database tables the        *)
(* handlers touch (attendees, notices), and one record per worker thread   *)
(* holding the request it is serving, the handler's locals (data, conn,    *)
(* the caught exception) and the response it returns.                      *)
(*                                                                         *)
(* Every call into psycopg2 or supabase-py sits inside a try block whose   *)
(* except clause turns the exception into a response, so every such call   *)
(* has a "returns" and a "raises" outcome here.  A commit (or a REST       *)
(* insert) that raises a transport error may or may not have been applied  *)
(* by the server: both outcomes are modelled.                              *)
(***************************************************************************)
EXTENDS Integers, Sequences, FiniteSets, TLC

VARIABLES DATABASE_URL, SUPABASE_URL, SUPABASE_KEY, supabase,
          attendees, notices, nextId, req,
          served, okCount, errRows, leaked

vars == <<DATABASE_URL, SUPABASE_URL, SUPABASE_KEY, supabase,
          attendees, notices, nextId, req,
          served, okCount, errRows, leaked>>

(***************************************************************************)
(* Bounds of the model.                                                    *)
(***************************************************************************)
MaxWorkers == 2
MaxRequests == 2
MaxSeqRequests == 1
MaxNotices == 2
MaxTs == 2

(***************************************************************************)
(* Values.                                                                 *)
(***************************************************************************)
None == "<None>"
ABSENT == "<absent>"
NULL == "<null>"
NULL_TS == 0

Truthy(v) == v \notin {None, ""}

EnvValues == {None, "", "set"}
EnvTriples == EnvValues \X EnvValues \X EnvValues
ModeEnvs == {<<"set", None, None>>, <<None, "set", "set">>, <<None, None, None>>,
             <<"set", "set", "set">>}

Workers == 1..MaxWorkers

required == <<"name", "grade", "class", "number", "parent_phone", "attendance_type">>
optional == <<"student_phone", "extra_notes">>
RequiredSet == {required[k] : k \in 1..Len(required)}
OptionalSet == {optional[k] : k \in 1..Len(optional)}
Columns == RequiredSet \cup OptionalSet

(***************************************************************************)
(* Request bodies.  A JSON object is a function from key to value, ABSENT   *)
(* standing for a key the object does not hold.  Bodies holds, for every   *)
(* set S of columns and every blank b (absent, null, empty string), the    *)
(* object whose columns in S carry a value and whose other columns are b;  *)
(* JSON null and a missing body are bodies too.                            *)
(***************************************************************************)
Blanks == {ABSENT, NULL, ""}

SampleValue(f) ==
    CASE f = "name" -> "Kim"
      [] f = "grade" -> "2"
      [] f = "class" -> "3"
      [] f = "number" -> "15"
      [] f = "student_phone" -> "010-3333-4444"
      [] f = "parent_phone" -> "010-1111-2222"
      [] f = "attendance_type" -> "offline"
      [] f = "extra_notes" -> "note"

ObjectBody(S, b) ==
    [kind |-> "object", fields |-> [f \in Columns |-> IF f \in S THEN SampleValue(f) ELSE b]]

JsonNull == [kind |-> "null", fields |-> [f \in {} |-> ABSENT]]
NoBody == [kind |-> "none", fields |-> [f \in {} |-> ABSENT]]

Bodies == {ObjectBody(S, b) : S \in SUBSET Columns, b \in Blanks} \cup {JsonNull}

SampleBodies ==
    {ObjectBody(Columns, ABSENT), ObjectBody(RequiredSet, ABSENT),
     ObjectBody(Columns \ {"grade"}, "")}

CheckinBodies ==
    {[kind |-> "object", fields |-> [f \in {"student_id"} |-> v]] : v \in {ABSENT, "s1"}}

\* data = request.json or {}
RequestJson(body) ==
    IF body.kind = "object" THEN body.fields ELSE [f \in Columns |-> ABSENT]

\* dict.get(key): the value, or None for a key the dict does not hold
Get(data, f) == IF data[f] = ABSENT THEN NULL ELSE data[f]

\* a validation that tests only for None
IsMissing_NoneOnly(data, f) == Get(data, f) = NULL

\* data.get(f) in (None, "")
IsMissing(data, f) == Get(data, f) \in {NULL, ""}

\* for f in required: if data.get(f) in (None, ""): return ... f  (0: loop ran out)
RECURSIVE FirstMissingFrom(_, _)
FirstMissingFrom(data, k) ==
    IF k > Len(required) THEN 0
    ELSE IF IsMissing(data, required[k]) THEN k
    ELSE FirstMissingFrom(data, k + 1)

FirstMissing(data) == FirstMissingFrom(data, 1)

\* a parameter tuple with student_phone bound from parent_phone
InsertValues_PhoneMixup(data) ==
    [f \in Columns |-> IF f = "student_phone" THEN Get(data, "parent_phone") ELSE Get(data, f)]

\* the values bound to the INSERT statement / the dict given to insert()
InsertValues(data) == [f \in Columns |-> Get(data, f)]

Row(id, values) == [id |-> id, values |-> values]

(***************************************************************************)
(* The notices table and ORDER BY pinned DESC, created_at DESC.            *)
(* pinned is a nullable boolean and created_at a nullable timestamp        *)
(* (timestamps 1..MaxTs, NULL_TS for NULL).  PostgreSQL sorts false before *)
(* true and NULL after every value, so DESC yields NULL, true, false and   *)
(* NULL, latest, ..., earliest.  Rows with equal keys come in any order.   *)
(***************************************************************************)
PinnedValues == {"true", "false", NULL}
TsValues == {NULL_TS} \cup (1..MaxTs)

Notice(id, p, t) ==
    [id |-> id, title |-> "title", content |-> "content", pinned |-> p, created_at |-> t]

NoticeStores ==
    UNION {{{Notice(k, f[k][1], f[k][2]) : k \in 1..n} :
              f \in [1..n -> PinnedValues \X TsValues]} : n \in 0..MaxNotices}

SampleNotices == {Notice(1, "false", 2), Notice(2, "true", 1), Notice(3, "false", 1)}

PinnedRank(p) == CASE p = NULL -> 2 [] p = "true" -> 1 [] p = "false" -> 0
TsRank(t) == IF t = NULL_TS THEN MaxTs + 1 ELSE t

\* ORDER BY pinned DESC, created_at ASC
SortsBefore_CreatedAsc(a, b) ==
    \/ PinnedRank(a.pinned) > PinnedRank(b.pinned)
    \/ /\ PinnedRank(a.pinned) = PinnedRank(b.pinned)
       /\ TsRank(a.created_at) < TsRank(b.created_at)

\* a sorts strictly before b under ORDER BY pinned DESC, created_at DESC
SortsBefore(a, b) ==
    \/ PinnedRank(a.pinned) > PinnedRank(b.pinned)
    \/ /\ PinnedRank(a.pinned) = PinnedRank(b.pinned)
       /\ TsRank(a.created_at) > TsRank(b.created_at)

Enumerations(S) ==
    {s \in [1..Cardinality(S) -> S] : \A i, j \in 1..Cardinality(S) : i # j => s[i] # s[j]}

\* the result sets the SELECT may return
OrderedSelect(rows) ==
    {s \in Enumerations(rows) : \A i, j \in 1..Len(s) : i < j => ~SortsBefore(s[j], s[i])}

\* r[4].isoformat() if r[4] else None
IsoFormat(t) == IF t = NULL_TS THEN [null |-> TRUE] ELSE [iso |-> t]

\* the dict built for each row (direct mode); PostgREST serialises the same columns
NoticeJson(r) ==
    [id |-> r.id, title |-> r.title, content |-> r.content, pinned |-> r.pinned,
     created_at |-> IsoFormat(r.created_at)]

NoticesJson(rows) == [k \in 1..Len(rows) |-> NoticeJson(rows[k])]

(***************************************************************************)
(* Module level: the environment and the supabase client.                  *)
(***************************************************************************)
\* a client created from either setting alone
ModuleSupabase_UrlOrKey(db, url, key) ==
    IF (Truthy(url) \/ Truthy(key)) /\ ~Truthy(db) THEN "client" ELSE None

\* a client created whether or not DATABASE_URL is set
ModuleSupabase_IgnoresDatabaseUrl(db, url, key) ==
    IF Truthy(url) /\ Truthy(key) THEN "client" ELSE None

\* supabase = None; if SUPABASE_URL and SUPABASE_KEY and not DATABASE_URL: create_client
ModuleSupabase(db, url, key) ==
    IF Truthy(url) /\ Truthy(key) /\ ~Truthy(db) THEN "client" ELSE None

\* the branch every handler takes: if DATABASE_URL / elif supabase / else
Backend ==
    IF Truthy(DATABASE_URL) THEN "psycopg2"
    ELSE IF Truthy(supabase) THEN "supabase-py"
    ELSE "none"

(***************************************************************************)
(* Exceptions and responses.                                               *)
(***************************************************************************)
Exc(type, msg) == [type |-> type, args |-> <<msg>>]
NoExc == [type |-> None, args |-> <<>>]
StrOf(e) == e.args[1]

ConnectError == Exc("OperationalError", "could not connect to server")
ExecuteError == Exc("IntegrityError", "violates constraint")
QueryError == Exc("ProgrammingError", "relation does not exist")
CommitError == Exc("OperationalError", "server closed the connection unexpectedly")
ApiError == Exc("PostgrestAPIError", "new row violates row-level security policy")
TransportError == Exc("ConnectError", "connection timed out")

\* get_db_connection(): what the call can do
GetDbConnection ==
    IF ~Truthy(DATABASE_URL) THEN {Exc("RuntimeError", "DATABASE_URL not set")}
    ELSE {NoExc, ConnectError}

Resp(status, body) == [status |-> status, body |-> body]
NoResp == Resp(0, [none |-> TRUE])

IdleReq ==
    [pc |-> "idle", method |-> "", path |-> "", body |-> NoBody, conn |-> "none",
     txn |-> <<>>, created |-> FALSE, backends |-> {}, exc |-> NoExc, resp |-> NoResp]

Return(r, status, body) == [r EXCEPT !.pc = "done", !.resp = Resp(status, body)]
Caught(r, e) == [r EXCEPT !.exc = e]
Uses(r, b) == [r EXCEPT !.backends = @ \cup {b}]

(***************************************************************************)
(* Routing: the four rules registered by @app.get / @app.post.             *)
(***************************************************************************)
Methods == {"GET", "POST"}
Paths == {"/", "/health/db", "/attendees", "/notices", "/checkin"}

UrlMap ==
    {<<"GET", "/", "home">>, <<"GET", "/health/db", "health_db">>,
     <<"POST", "/attendees", "add_attendee">>, <<"GET", "/notices", "get_notices">>}

Request(m, p, b) == [method |-> m, path |-> p, body |-> b]

Requests ==
    {Request("GET", p, NoBody) : p \in Paths}
      \cup {Request("POST", p, NoBody) : p \in {"/", "/health/db", "/notices"}}
      \cup {Request("POST", "/attendees", b) : b \in Bodies}
      \cup {Request("POST", "/checkin", b) : b \in CheckinBodies}

SampleRequests ==
    {Request("GET", p, NoBody) : p \in {"/", "/health/db", "/notices"}}
      \cup {Request("POST", "/attendees", b) : b \in SampleBodies}

NoticeRequests == {Request("GET", "/notices", NoBody)}

\* the request as the worker holds it after Flask matched it against the url map
Dispatch(q) ==
    LET r == [IdleReq EXCEPT !.method = q.method, !.path = q.path, !.body = q.body]
    IN  IF \E u \in UrlMap : u[1] = q.method /\ u[2] = q.path
        THEN [r EXCEPT !.pc = (CHOOSE u \in UrlMap : u[1] = q.method /\ u[2] = q.path)[3]]
        ELSE IF \E u \in UrlMap : u[2] = q.path
        THEN Return(r, 405, [html |-> "Method Not Allowed"])
        ELSE Return(r, 404, [html |-> "Not Found"])

(***************************************************************************)
(* Initial state: the module has been imported.                            *)
(***************************************************************************)
InitFor(envs, stores) ==
    /\ \E e \in envs :
          /\ DATABASE_URL = e[1]
          /\ SUPABASE_URL = e[2]
          /\ SUPABASE_KEY = e[3]
          /\ supabase = ModuleSupabase(e[1], e[2], e[3])
    /\ notices \in stores
    /\ attendees = <<>>
    /\ nextId = 1
    /\ req = [i \in Workers |-> IdleReq]
    /\ served = 0
    /\ okCount = 0
    /\ errRows = 0
    /\ leaked = 0

Set(i, r) == req' = [req EXCEPT ![i] = r]

\* a worker thread takes a request and Flask routes it
Receive(i, R, max) ==
    /\ req[i].pc = "idle"
    /\ served < max
    /\ \E q \in R : Set(i, Dispatch(q))
    /\ served' = served + 1
    /\ UNCHANGED <<DATABASE_URL, SUPABASE_URL, SUPABASE_KEY, supabase, attendees, notices,
                   nextId, okCount, errRows, leaked>>

\* the response leaves; the handler's locals are dropped, an unclosed connection is not
Respond(i) ==
    /\ req[i].pc = "done"
    /\ Set(i, IdleReq)
    /\ okCount' = okCount + (IF req[i].path = "/attendees" /\ req[i].resp.status = 200
                             THEN 1 ELSE 0)
    /\ errRows' = errRows + (IF req[i].created /\ req[i].resp.status # 200 THEN 1 ELSE 0)
    /\ leaked' = leaked + (IF req[i].conn = "open" THEN 1 ELSE 0)
    /\ UNCHANGED <<DATABASE_URL, SUPABASE_URL, SUPABASE_KEY, supabase, attendees, notices,
                   nextId, served>>

ReadOnly ==
    UNCHANGED <<DATABASE_URL, SUPABASE_URL, SUPABASE_KEY, supabase, attendees, notices,
                nextId, served, okCount, errRows, leaked>>

(***************************************************************************)
(* GET /                                                                   *)
(***************************************************************************)
home(i) ==
    /\ req[i].pc = "home"
    /\ Set(i, Return(req[i], 200, [ok |-> TRUE, service |-> "jinhak2025-backend"]))
    /\ ReadOnly

(***************************************************************************)
(* GET /health/db                                                          *)
(***************************************************************************)
\* an except clause that forgets the status code
HealthError_Status200(r, e) == Return(Caught(r, e), 200, [db |-> "error", detail |-> StrOf(e)])

HealthError(r, e) == Return(Caught(r, e), 500, [db |-> "error", detail |-> StrOf(e)])

Min(a, b) == IF a < b THEN a ELSE b

health_db(i) ==
    /\ req[i].pc = "health_db"
    /\ \/ /\ Backend = "psycopg2"
          /\ \E e \in GetDbConnection :
                IF e = NoExc
                THEN Set(i, [Uses(req[i], "psycopg2") EXCEPT !.conn = "open",
                                                             !.pc = "health_query"])
                ELSE Set(i, HealthError(Uses(req[i], "psycopg2"), e))
       \/ /\ Backend = "supabase-py"
          /\ \E e \in {NoExc, ApiError, TransportError} :
                IF e = NoExc
                THEN Set(i, Return(Uses(req[i], "supabase-py"), 200,
                                   [db |-> "ok", mode |-> "supabase-py",
                                    rows |-> Min(1, Cardinality(notices))]))
                ELSE Set(i, HealthError(Uses(req[i], "supabase-py"), e))
       \/ /\ Backend = "none"
          /\ Set(i, Return(req[i], 500, [db |-> "error", detail |-> "No DB config found"]))
    /\ ReadOnly

\* cur.execute("SELECT 1;"); cur.fetchone(); cur.close(); conn.close(); return
health_query(i) ==
    /\ req[i].pc = "health_query"
    /\ \E e \in {NoExc, QueryError} :
          IF e = NoExc
          THEN Set(i, Return([req[i] EXCEPT !.conn = "closed"], 200,
                             [db |-> "ok", mode |-> "psycopg2"]))
          ELSE Set(i, HealthError(req[i], e))
    /\ ReadOnly

(***************************************************************************)
(* POST /attendees                                                         *)
(***************************************************************************)
ErrorDetail(r, status, e) ==
    Return(Caught(r, e), status, [status |-> "error", detail |-> StrOf(e)])

\* an except clause that hides the message
DirectExcept_Redacted(r, e) ==
    Return(Caught(r, e), 500, [status |-> "error", detail |-> "internal error"])

\* direct mode: except Exception as e: ... 500
DirectExcept(r, e) == ErrorDetail(r, 500, e)

\* REST mode: except PostgrestAPIError as e: ... 400; except Exception as e: ... 500
RestExcept(r, e) ==
    IF e.type = "PostgrestAPIError" THEN ErrorDetail(r, 400, e) ELSE ErrorDetail(r, 500, e)

NoConfig(r) == Return(r, 500, [status |-> "error", message |-> "No DB config found"])

\* the validation loop over required
Validate(r) ==
    LET k == FirstMissing(RequestJson(r.body))
    IN  IF k # 0
        THEN Return(r, 400, [status |-> "error", message |-> <<required[k], " is required">>])
        ELSE [r EXCEPT !.pc = "insert"]

add_attendee(i) ==
    /\ req[i].pc = "add_attendee"
    /\ Set(i, Validate(req[i]))
    /\ ReadOnly

\* the backend branch: get_db_connection(), or the whole REST insert, or no configuration
insert(i) ==
    /\ req[i].pc = "insert"
    /\ \/ /\ Backend = "psycopg2"
          /\ \E e \in GetDbConnection :
                IF e = NoExc
                THEN Set(i, [Uses(req[i], "psycopg2") EXCEPT !.conn = "open", !.pc = "execute"])
                ELSE Set(i, DirectExcept(Uses(req[i], "psycopg2"), e))
          /\ UNCHANGED <<attendees, nextId>>
       \/ /\ Backend = "supabase-py"
          /\ \E e \in {NoExc, ApiError, TransportError} :
                \E applied \in (IF e = NoExc THEN {TRUE}
                                ELSE IF e = ApiError THEN {FALSE} ELSE {FALSE, TRUE}) :
                   /\ IF applied
                      THEN /\ attendees' = Append(attendees,
                                  Row(nextId, InsertValues(RequestJson(req[i].body))))
                           /\ nextId' = nextId + 1
                      ELSE UNCHANGED <<attendees, nextId>>
                   /\ LET r == [Uses(req[i], "supabase-py") EXCEPT !.created = applied]
                      IN  IF e = NoExc
                          THEN Set(i, Return(r, 200, [status |-> "ok"]))
                          ELSE Set(i, RestExcept(r, e))
       \/ /\ Backend = "none"
          /\ Set(i, NoConfig(req[i]))
          /\ UNCHANGED <<attendees, nextId>>
    /\ UNCHANGED <<DATABASE_URL, SUPABASE_URL, SUPABASE_KEY, supabase, notices,
                   served, okCount, errRows, leaked>>

\* an execute on an autocommit connection: the row is durable before commit()
execute_autocommit(i) ==
    /\ req[i].pc = "execute"
    /\ \E e \in {NoExc, ExecuteError} :
          IF e = NoExc
          THEN /\ Set(i, [req[i] EXCEPT
                            !.txn = <<Row(nextId, InsertValues(RequestJson(req[i].body)))>>,
                            !.pc = "commit"])
               /\ attendees' = Append(attendees,
                                      Row(nextId, InsertValues(RequestJson(req[i].body))))
               /\ nextId' = nextId + 1
          ELSE /\ Set(i, DirectExcept(req[i], e))
               /\ UNCHANGED <<attendees, nextId>>
    /\ UNCHANGED <<DATABASE_URL, SUPABASE_URL, SUPABASE_KEY, supabase, notices,
                   served, okCount, errRows, leaked>>

\* cur.execute(INSERT ... RETURNING id); new_id = cur.fetchone()[0]
execute(i) ==
    /\ req[i].pc = "execute"
    /\ \E e \in {NoExc, ExecuteError} :
          IF e = NoExc
          THEN /\ Set(i, [req[i] EXCEPT
                            !.txn = <<Row(nextId, InsertValues(RequestJson(req[i].body)))>>,
                            !.pc = "commit"])
               /\ nextId' = nextId + 1
          ELSE /\ Set(i, DirectExcept(req[i], e))
               /\ UNCHANGED nextId
    /\ UNCHANGED <<DATABASE_URL, SUPABASE_URL, SUPABASE_KEY, supabase, attendees, notices,
                   served, okCount, errRows, leaked>>

\* conn.commit(); cur.close(); conn.close(); return jsonify({"status": "ok", "id": new_id})
commit(i) ==
    /\ req[i].pc = "commit"
    /\ \E e \in {NoExc, CommitError} :
          \E applied \in (IF e = NoExc THEN {TRUE} ELSE {FALSE, TRUE}) :
             /\ attendees' = (IF applied THEN Append(attendees, req[i].txn[1]) ELSE attendees)
             /\ LET r == [req[i] EXCEPT !.created = applied, !.txn = <<>>]
                IN  IF e = NoExc
                    THEN Set(i, Return([r EXCEPT !.conn = "closed"], 200,
                                       [status |-> "ok", id |-> req[i].txn[1].id]))
                    ELSE Set(i, DirectExcept(r, e))
    /\ UNCHANGED <<DATABASE_URL, SUPABASE_URL, SUPABASE_KEY, supabase, notices, nextId,
                   served, okCount, errRows, leaked>>

(***************************************************************************)
(* GET /notices                                                            *)
(***************************************************************************)
get_notices(i) ==
    /\ req[i].pc = "get_notices"
    /\ \/ /\ Backend = "psycopg2"
          /\ \E e \in GetDbConnection :
                IF e = NoExc
                THEN Set(i, [Uses(req[i], "psycopg2") EXCEPT !.conn = "open",
                                                             !.pc = "notices_query"])
                ELSE Set(i, DirectExcept(Uses(req[i], "psycopg2"), e))
       \/ /\ Backend = "supabase-py"
          /\ \E e \in {NoExc, ApiError, TransportError} :
                IF e = NoExc
                THEN \E rows \in OrderedSelect(notices) :
                        Set(i, Return(Uses(req[i], "supabase-py"), 200,
                                      [array |-> NoticesJson(rows)]))
                ELSE Set(i, RestExcept(Uses(req[i], "supabase-py"), e))
       \/ /\ Backend = "none"
          /\ Set(i, NoConfig(req[i]))
    /\ ReadOnly

\* cur.execute(SELECT ... ORDER BY ...); rows = cur.fetchall(); close; return jsonify([...])
notices_query(i) ==
    /\ req[i].pc = "notices_query"
    /\ \E e \in {NoExc, QueryError} :
          IF e = NoExc
          THEN \E rows \in OrderedSelect(notices) :
                  Set(i, Return([req[i] EXCEPT !.conn = "closed"], 200,
                                [array |-> NoticesJson(rows)]))
          ELSE Set(i, DirectExcept(req[i], e))
    /\ ReadOnly

(***************************************************************************)
(* Specifications.                                                         *)
(***************************************************************************)
Handle(i) ==
    \/ home(i)
    \/ health_db(i)
    \/ health_query(i)
    \/ add_attendee(i)
    \/ insert(i)
    \/ execute(i)
    \/ commit(i)
    \/ get_notices(i)
    \/ notices_query(i)
    \/ Respond(i)

\* one worker, every request
Init == InitFor(EnvTriples, {SampleNotices})
Next == \E i \in {1} : Receive(i, Requests, MaxSeqRequests) \/ Handle(i)
Spec == Init /\ [][Next]_vars

\* concurrent workers
InitConc == InitFor(ModeEnvs, {SampleNotices})
NextConc == \E i \in Workers : Receive(i, SampleRequests, MaxRequests) \/ Handle(i)
SpecConc == InitConc /\ [][NextConc]_vars

\* every content of the notices table
InitNotices == InitFor(ModeEnvs, NoticeStores)
NextNotices ==
    \E i \in {1} : Receive(i, NoticeRequests, MaxRequests) \/ get_notices(i) \/ notices_query(i) \/ Respond(i)
SpecNotices == InitNotices /\ [][NextNotices]_vars

(***************************************************************************)
(* Properties.                                                             *)
(***************************************************************************)
Done(i) == req[i].pc = "done"
Registration(i) == req[i].method = "POST" /\ req[i].path = "/attendees"
Blank(i, f) == req[i].body.kind # "object" \/ req[i].body.fields[f] \in Blanks
Complete(i) == \A f \in RequiredSet : ~Blank(i, f)
Configured ==
    Truthy(DATABASE_URL) \/ (Truthy(SUPABASE_URL) /\ Truthy(SUPABASE_KEY))
Has(b, k) == k \in DOMAIN b

\* C1: a POST /attendees whose body lacks a required field (absent, null or "") is
\* answered 400 with "<f> is required", f the first such field in the order listed,
\* under every configuration of the backends, and no backend is touched.
C1_MissingFieldRejected ==
    \A i \in Workers :
        (Done(i) /\ Registration(i) /\ ~Complete(i)) =>
            /\ req[i].resp.status = 400
            /\ \E k \in 1..Len(required) :
                  /\ Blank(i, required[k])
                  /\ \A j \in 1..(k - 1) : ~Blank(i, required[j])
                  /\ req[i].resp.body = [status |-> "error",
                                         message |-> <<required[k], " is required">>]
            /\ req[i].backends = {}
            /\ ~req[i].created

C1_Witness ==
    \E i \in Workers :
        /\ Done(i) /\ Registration(i)
        /\ Truthy(DATABASE_URL)
        /\ req[i].body.kind = "object"
        /\ req[i].body.fields["name"] = "Kim"
        /\ req[i].body.fields["grade"] = ""
        /\ req[i].body.fields["number"] = ""
        /\ req[i].resp.status = 400
        /\ req[i].resp.body.message = <<"grade", " is required">>

\* C2: a POST /attendees with all six required fields present and non-empty, whose
\* insert the configured backend accepts (nothing raises), is answered 200
\* {status: "ok"} (with the new id in direct mode), and the attendees table holds a
\* row whose eight columns equal the submitted values, an absent key stored as NULL.
Submitted(i) ==
    [f \in Columns |-> IF req[i].body.fields[f] = ABSENT THEN NULL ELSE req[i].body.fields[f]]

C2_ValidRecordStored ==
    \A i \in Workers :
        (Done(i) /\ Registration(i) /\ Complete(i) /\ Configured /\ req[i].exc = NoExc) =>
            /\ req[i].resp.status = 200
            /\ req[i].resp.body.status = "ok"
            /\ Truthy(DATABASE_URL) <=> Has(req[i].resp.body, "id")
            /\ \E k \in 1..Len(attendees) :
                  /\ attendees[k].values = Submitted(i)
                  /\ Truthy(DATABASE_URL) => attendees[k].id = req[i].resp.body.id
            /\ req[i].created

C2_Witness ==
    \E i \in Workers :
        /\ Done(i) /\ Registration(i) /\ Complete(i)
        /\ req[i].body.fields["student_phone"] = ABSENT
        /\ req[i].body.fields["extra_notes"] = "note"
        /\ req[i].resp.status = 200
        /\ Has(req[i].resp.body, "id")
        /\ Len(attendees) = 1
        /\ attendees[1].values["student_phone"] = NULL
        /\ attendees[1].values["parent_phone"] = "010-1111-2222"

\* C3: a successful GET /notices lists every notice of the table exactly once, every
\* pinned notice (pinned = true) before every unpinned one (pinned = false), and of
\* two notices with the same pinned value the one created later first; in both modes.
StoredNotice(id) == CHOOSE n \in notices : n.id = id

C3_NoticesOrdered ==
    \A i \in Workers :
        (Done(i) /\ req[i].path = "/notices" /\ req[i].resp.status = 200) =>
            LET a == req[i].resp.body.array
            IN  /\ Len(a) = Cardinality(notices)
                /\ {a[k].id : k \in 1..Len(a)} = {n.id : n \in notices}
                /\ \A k \in 1..Len(a) : a[k].pinned = StoredNotice(a[k].id).pinned
                /\ \A j, k \in 1..Len(a) :
                      j < k =>
                        LET x == StoredNotice(a[j].id)
                            y == StoredNotice(a[k].id)
                        IN  /\ ~(x.pinned = "false" /\ y.pinned = "true")
                            /\ (/\ x.pinned = y.pinned
                                /\ x.created_at # NULL_TS
                                /\ y.created_at # NULL_TS) => x.created_at >= y.created_at

C3_Witness ==
    \E i \in Workers :
        /\ Done(i) /\ req[i].path = "/notices" /\ req[i].resp.status = 200
        /\ Truthy(supabase)
        /\ notices = {Notice(1, "false", 2), Notice(2, "true", 1)}
        /\ req[i].resp.body.array[1].id = 2
        /\ req[i].resp.body.array[2].id = 1

\* C4: GET /health/db answers 200 with db = "ok" exactly when a database is configured
\* and neither the connection nor the probe query raises, and 500 with db = "error"
\* otherwise; no other pair of status and db value is returned.
C4_HealthStatus ==
    \A i \in Workers :
        (Done(i) /\ req[i].method = "GET" /\ req[i].path = "/health/db") =>
            /\ Has(req[i].resp.body, "db")
            /\ \/ req[i].resp.status = 200 /\ req[i].resp.body.db = "ok"
               \/ req[i].resp.status = 500 /\ req[i].resp.body.db = "error"
            /\ req[i].resp.body.db = "ok" <=> (Configured /\ req[i].exc = NoExc)

C4_Witness ==
    \E i \in Workers :
        /\ Done(i) /\ req[i].path = "/health/db"
        /\ req[i].exc = ConnectError
        /\ req[i].resp = Resp(500, [db |-> "error", detail |-> "could not connect to server"])

\* C5 (as claimed): every error the persistence layer raises for a validated
\* POST /attendees is answered 500 with the error's message, in every backend mode.
C5_PersistenceErrorIs500 ==
    \A i \in Workers :
        (Done(i) /\ Registration(i) /\ Complete(i) /\ req[i].exc # NoExc) =>
            /\ req[i].resp.status = 500
            /\ req[i].resp.body.detail = req[i].exc.args[1]

\* C5 (amended): every error the persistence layer raises for a validated
\* POST /attendees is answered with the error's message unredacted; the status is 400
\* for a PostgrestAPIError in REST mode and 500 for every other error in either mode.
C5_PersistenceErrorSurfaced ==
    \A i \in Workers :
        (Done(i) /\ Registration(i) /\ Complete(i) /\ req[i].exc # NoExc) =>
            /\ req[i].resp.body.status = "error"
            /\ req[i].resp.body.detail = req[i].exc.args[1]
            /\ req[i].resp.status =
                  (IF ~Truthy(DATABASE_URL) /\ req[i].exc.type = "PostgrestAPIError"
                   THEN 400 ELSE 500)

C5_Witness ==
    \E i \in Workers :
        /\ Done(i) /\ Registration(i) /\ Complete(i)
        /\ req[i].exc.type = "PostgrestAPIError"
        /\ req[i].resp.status = 400
        /\ req[i].resp.body.detail = "new row violates row-level security policy"

\* C6: with no database target configured (no connection string, and not both REST URL
\* and key), GET /health/db, GET /notices and a POST /attendees that passes validation
\* are answered 500 with an error payload, and no storage access is attempted.
C6_NoConfigIs500 ==
    \A i \in Workers :
        (/\ ~Configured
         /\ Done(i)
         /\ \/ req[i].method = "GET" /\ req[i].path \in {"/health/db", "/notices"}
            \/ Registration(i) /\ Complete(i)) =>
            /\ req[i].resp.status = 500
            /\ \/ Has(req[i].resp.body, "db") /\ req[i].resp.body.db = "error"
               \/ Has(req[i].resp.body, "status") /\ req[i].resp.body.status = "error"
            /\ req[i].backends = {}
            /\ req[i].conn = "none"
            /\ req[i].exc = NoExc
            /\ ~req[i].created

C6_Witness ==
    \E i \in Workers :
        /\ Done(i) /\ Registration(i) /\ Complete(i)
        /\ DATABASE_URL = "" /\ SUPABASE_URL = "set" /\ SUPABASE_KEY = None
        /\ req[i].resp = Resp(500, [status |-> "error", message |-> "No DB config found"])

\* C7: POST /checkin is handled: a body without a student identifier is answered 400,
\* and an identifier that matches no attendee is answered 404 (update-based variant)
\* or 200 with a new row (insert-based variant).
C7_CheckinHandled ==
    \A i \in Workers :
        (Done(i) /\ req[i].method = "POST" /\ req[i].path = "/checkin") =>
            IF req[i].body.fields["student_id"] = ABSENT
            THEN req[i].resp.status = 400
            ELSE /\ req[i].resp.status \in {404, 200}
                 /\ Has(req[i].resp.body, "status")

\* C8 (as claimed): whenever no request is in flight, the number of attendee rows equals
\* the number of POST /attendees requests answered with status "ok".
C8_RowsEqualOkResponses ==
    (\A i \in Workers : req[i].pc = "idle") => Len(attendees) = okCount

\* C8 (amended): under every interleaving each registration answered "ok" has created
\* exactly one row; one answered 400, or 500 before its insert was committed, has
\* created none; one answered 500 because conn.commit() or the REST call raised a
\* transport error has created one row or none; no other request creates, changes or
\* deletes a row.  So the rows number the "ok" answers plus the rows of such failures.
InFlightRows == Cardinality({i \in Workers : req[i].pc # "idle" /\ req[i].created})

C8_RowsAccounted ==
    /\ Len(attendees) = okCount + errRows + InFlightRows
    /\ \A i \in Workers :
          /\ req[i].created => Registration(i) /\ Complete(i)
          /\ (Done(i) /\ Registration(i) /\ req[i].resp.status = 200) => req[i].created
          /\ (Done(i) /\ req[i].created /\ req[i].resp.status # 200) =>
                /\ req[i].resp.status = 500
                /\ req[i].exc \in {CommitError, TransportError}

C8_Witness ==
    \E i, j \in Workers :
        /\ i # j
        /\ Done(i) /\ req[i].resp.status = 200 /\ req[i].created
        /\ Done(j) /\ req[j].resp.status = 500 /\ req[j].created
        /\ Len(attendees) = 2

\* C9: in direct mode no connection opened by a handler is still open once the handler
\* has returned its response, on the success path and on every exception path.
C9_ConnectionsClosed ==
    /\ leaked = 0
    /\ \A i \in Workers : Done(i) => req[i].conn # "open"

\* C10: the backend is fixed by the environment and is the same for every request: with
\* the connection string set the handlers use the direct connection and the REST client
\* is never created or used, even if REST URL and key are set too; the REST client is
\* used only when the connection string is absent and REST URL and key are both set;
\* no request touches both backends.
C10_BackendSelection ==
    /\ Truthy(DATABASE_URL) => supabase = None
    /\ \A i \in Workers :
          /\ Cardinality(req[i].backends) <= 1
          /\ "psycopg2" \in req[i].backends => Truthy(DATABASE_URL)
          /\ "supabase-py" \in req[i].backends =>
                ~Truthy(DATABASE_URL) /\ Truthy(SUPABASE_URL) /\ Truthy(SUPABASE_KEY)
          /\ (/\ Done(i)
              /\ req[i].path \in {"/health/db", "/notices", "/attendees"}
              /\ req[i].resp.status \notin {400, 405}
              /\ Truthy(DATABASE_URL)) => req[i].backends = {"psycopg2"}

C10_Witness ==
    \E i \in Workers :
        /\ DATABASE_URL = "set" /\ SUPABASE_URL = "set" /\ SUPABASE_KEY = "set"
        /\ Done(i) /\ Registration(i)
        /\ req[i].resp.status = 200
        /\ req[i].backends = {"psycopg2"}

====
